---- MODULE Spec2Model ----
(***************************************************************************)
(* Model of the voice console page (src/src/pages/ConsolePage.tsx): the    *)
(* audio delta pipeline (resampler, readiness gate, pending-audio buffer), *)
(* the push-to-talk turn controller and the conversation projection.       *)
(*                                                                         *)
(* The page runs on one event loop.  Every action below is one run of a    *)
(* handler from an event (or from the resumption of an await) up to its    *)
(* next await on a collaborator or to its end.  An await on a promise that *)
(* is already settled resumes in a microtask, before any other event, and  *)
(* is therefore part of the same action.                                   *)
(***************************************************************************)
EXTENDS Integers, Sequences, FiniteSets, TLC

\* ------------------------------------------------------------------ bounds
\* audio deltas delivered over a run
MaxDeltas == 4
\* presses of the talk button over a run (releases are bounded alike)
MaxPresses == 1
\* clicks on Connect (and on Disconnect) over a run
MaxConnects == 1
\* samples of an input of resampleAudioData drawn from SampleValues
MaxSamples == 3

\* ------------------------------------------------------- program constants
\* rate of the model's audio deltas, rate of the avatar transport
ModelRate == 24000
SimliRate == 16000
\* length in bytes of the silence frame sent right after start()
SilenceLen == 6000

\* ---------------------------------------------------------- pure functions
Min(a, b) == IF a <= b THEN a ELSE b

\* a conversion to an integer that rounds down
TruncDiv_Floor(a, b) == a \div b

\* Number -> Int16 as a typed array stores it: truncate toward zero, wrap.
TruncDiv(a, b) == IF a >= 0 THEN a \div b ELSE -((-a) \div b)

ToInt16(x) == LET m == x % 65536 IN IF m >= 32768 THEN m - 65536 ELSE m

\* an output length with the ratio upside down
OutputLength_Inverted(len, inRate, outRate) ==
  (2 * len * inRate + outRate) \div (2 * outRate)

\* Math.round(inputLength / (inRate / outRate)): round half up.
OutputLength(len, inRate, outRate) ==
  (2 * len * outRate + inRate) \div (2 * inRate)

\* inputData[k] of a typed array (0-based); a read outside it is undefined,
\* which the arithmetic turns into NaN and the store into 0.
InAt(inputData, k) ==
  IF k >= 0 /\ k < Len(inputData) THEN inputData[k + 1] ELSE 0

Defined(inputData, k) == k >= 0 /\ k < Len(inputData)

\* Math.floor(i * sampleRateRatio)
LowerIndex(i, inRate, outRate) == (i * inRate) \div outRate

\* an upper neighbour that is not clamped
UpperIndex_Unclamped(inputData, lowerIndex) == lowerIndex + 1

\* Math.min(lowerIndex + 1, inputData.length - 1)
UpperIndex(inputData, lowerIndex) == Min(lowerIndex + 1, Len(inputData) - 1)

\* an interpolation with the two weights exchanged
ResampleAt_SwappedWeights(inputData, inRate, outRate, i) ==
  LET lowerIndex == (i * inRate) \div outRate
      upperIndex == Min(lowerIndex + 1, Len(inputData) - 1)
      num        == (i * inRate) % outRate
  IN  IF Defined(inputData, lowerIndex) /\ Defined(inputData, upperIndex)
      THEN ToInt16(TruncDiv(num * InAt(inputData, lowerIndex)
                            + (outRate - num) * InAt(inputData, upperIndex), outRate))
      ELSE 0

\* One output sample: sourceIndex = i * ratio, split into floor and fraction
\* (kept exact as num / outRate), then the weighted sum stored as Int16.
ResampleAt(inputData, inRate, outRate, i) ==
  LET lowerIndex == LowerIndex(i, inRate, outRate)
      upperIndex == UpperIndex(inputData, lowerIndex)
      num        == (i * inRate) % outRate
  IN  IF Defined(inputData, lowerIndex) /\ Defined(inputData, upperIndex)
      THEN ToInt16(TruncDiv((outRate - num) * InAt(inputData, lowerIndex)
                            + num * InAt(inputData, upperIndex), outRate))
      ELSE 0

\* the indices of inputData the loop reads: for every output sample, the
\* lower and the upper neighbour
ReadsOf(inputData, inRate, outRate) ==
  UNION { LET lowerIndex == LowerIndex(j - 1, inRate, outRate)
          IN  {lowerIndex, UpperIndex(inputData, lowerIndex)} :
          j \in 1..OutputLength(Len(inputData), inRate, outRate) }

resampleAudioData(inputData, inputSampleRate, outputSampleRate) ==
  [j \in 1..OutputLength(Len(inputData), inputSampleRate, outputSampleRate) |->
     ResampleAt(inputData, inputSampleRate, outputSampleRate, j - 1)]

\* new Uint8Array(int16.buffer).length
ByteLength(pcm) == 2 * Len(pcm)

\* ------------------------------------------------------------------ inputs
\* audio payloads of the model's deltas (PCM16 at 24 kHz): 75 samples, which
\* resample to 50 samples, a frame of 100 bytes
DeltaAudios == { [k \in 1..75 |-> 8 * k] }

\* inputs of resampleAudioData looked at on their own: the samples of short
\* inputs (Int16), a ramp of 480 samples, and pairs <<inRate, outRate>>
SampleValues == {-32768, -7, 0, 5, 32767}

RECURSIVE SeqsUpTo(_)
SeqsUpTo(n) ==
  IF n = 0 THEN { <<>> }
  ELSE LET shorter == SeqsUpTo(n - 1)
       IN  shorter \cup { Append(q, v) : q \in { x \in shorter : Len(x) = n - 1 },
                                        v \in SampleValues }

Ramp480 == [k \in 1..480 |-> 50 * (k - 240)]

RatePairs ==
  { <<24000, 16000>>, <<16000, 16000>>, <<24000, 24000>>, <<16000, 24000>>,
    <<44100, 16000>>, <<3, 2>>, <<1, 3>> }

ResampleInputs == SeqsUpTo(MaxSamples) \cup {Ramp480}

\* what wavStreamPlayer.interrupt() resolves to: null (or no track), or the
\* track that was playing with the offset reached
NoTrack == [trackId |-> "", offset |-> 0]
InterruptResults ==
  { NoTrack, [trackId |-> "t1", offset |-> 240], [trackId |-> "t2", offset |-> 0] }

\* ids of the conversation items the server creates
ItemIds == {"item1"}

\* the same for the runs that look at the published item list
ProjectionItems == {"item1", "item2"}

\* conversation.updated handlers that can reach the decode of a completed
\* item: per item, the event that completes it and its transcript event
MaxDecodes == 2 * Cardinality(ItemIds)

\* AudioContext objects a run can create: every invocation of a handler
\* creates at most one
MaxCtx == MaxConnects + MaxPresses + 1 + MaxDecodes

\* ------------------------------------------------------------------- state
VARIABLES
  simliConfigured,   \* REACT_APP_SIMLI_API_KEY and REACT_APP_SIMLI_FACE_ID are set
  simliClient,       \* simliClientRef.current is an object (not null)
  simliPc,           \* its pc: "null", or the pc's iceConnectionState
  simliDc,           \* its dc: "null", or the dc's readyState
  simliAudioBuffer,  \* simliAudioBufferRef.current: frames [id, len]
  sendLog,           \* history: the calls of sendAudioData, in order
  discarded,         \* history: ids of the frames an interruption cleared
  items,             \* React state items: ids of the published item list
  isConnected,       \* React state
  isRecording,       \* React state
  audioContext,      \* React state: 0 (null) or the id of an AudioContext
  ctxState,          \* the AudioContext objects: id -> state
  effectCtx,         \* audioContext as the main effect last ran with it
  clientConnected,   \* the realtime client's session is connected
  turnDetection,     \* client.getTurnDetectionType()
  conv,              \* client.conversation: ids of its items
  itemObj,           \* the item objects: id -> fields read or written here
  nDelta,            \* audio deltas delivered so far
  recorder,          \* wavRecorder: "ended", "paused" or "recording"
  conns,             \* invocations of connectConversation
  discs,             \* invocations of disconnectConversation
  starts,            \* invocations of startRecording
  stops,             \* invocations of stopRecording
  decs,              \* conversation.updated handlers that awaited a decode
  resample           \* one call of resampleAudioData: its arguments and result

simliVars == <<simliConfigured, simliClient, simliPc, simliDc>>
bufVars == <<simliAudioBuffer, sendLog, discarded>>
ctxVars == <<audioContext, ctxState, effectCtx>>
clientVars == <<clientConnected, turnDetection, conv, itemObj, nDelta>>
procVars == <<conns, discs, starts, stops, decs>>
pageVars == <<simliVars, bufVars, items, isConnected, isRecording, ctxVars,
              clientVars, recorder, procVars>>
vars == <<pageVars, resample>>

CtxIds == 1..MaxCtx

NoItem == [status |-> "absent", hasAudio |-> FALSE, file |-> FALSE, transcript |-> 0]

\* The page after its first render and the first run of its effects, in a
\* run whose server creates the items ids.
PageInitOver(ids) ==
  /\ simliConfigured \in BOOLEAN
  /\ simliClient = simliConfigured
  /\ simliPc = "null"
  /\ simliDc = "null"
  /\ simliAudioBuffer = <<>>
  /\ sendLog = <<>>
  /\ discarded = {}
  /\ items = {}
  /\ isConnected = FALSE
  /\ isRecording = FALSE
  /\ audioContext = 0
  /\ ctxState = [c \in CtxIds |-> "none"]
  /\ effectCtx = 0
  /\ clientConnected = FALSE
  /\ turnDetection \in {"none", "server_vad"}
  /\ conv = {}
  /\ itemObj = [i \in ids |-> NoItem]
  /\ nDelta = 0
  /\ recorder = "ended"
  /\ conns = <<>>
  /\ discs = <<>>
  /\ starts = <<>>
  /\ stops = <<>>
  /\ decs = <<>>

PageInit == PageInitOver(ItemIds)

\* no call of resampleAudioData is looked at
NoResample ==
  [input |-> <<>>, inRate |-> ModelRate, outRate |-> SimliRate,
   output |-> <<>>, reads |-> {}, done |-> FALSE]

Init == PageInit /\ resample = NoResample

\* ------------------------------------------------------------ readiness gate
\* pc.iceConnectionState and dc.readyState: the read of a property of null
\* throws a TypeError
IceOf(pc) == IF pc = "null" THEN "TypeError" ELSE pc

ReadyOf(dc) == IF dc = "null" THEN "TypeError" ELSE dc

\* a gate that does not look at the data channel's ready state
GateOf_NoReadyState(client, pc, dc) ==
  IF ~client THEN "false"
  ELSE IF pc = "null" THEN "false"
  ELSE IF IceOf(pc) # "connected" THEN "false"
  ELSE IF dc = "null" THEN "false" ELSE "true"

\* The body of isSimliDataChannelOpen on a client (or none), its pc and its
\* dc: "true", "false", or "throws" when it reads a property of null.  The
\* && chain stops at its first false operand.
GateOf(client, pc, dc) ==
  IF ~client THEN "false"
  ELSE IF pc = "null" THEN "false"
  ELSE IF IceOf(pc) = "TypeError" THEN "throws"
  ELSE IF IceOf(pc) # "connected" THEN "false"
  ELSE IF dc = "null" THEN "false"
  ELSE IF ReadyOf(dc) = "TypeError" THEN "throws"
  ELSE IF ReadyOf(dc) = "open" THEN "true" ELSE "false"

GateResult == GateOf(simliClient, simliPc, simliDc)

isSimliDataChannelOpen == GateResult = "true"

\* ---------------------------------------------------------------- scheduling
\* React has committed the last change of audioContext and re-run the main
\* effect.  It does so before the next task of the event loop (a user event,
\* a server event, the completion of a collaborator's operation); only the
\* microtask that resumes a handler from initializeAudioContext() can run
\* before it.
EffectsFlushed == effectCtx = audioContext

\* ------------------------------------------------ avatar transport (Simli)
\* The transport's own progress: ICE and the data channel change state.
SimliIceChange ==
  /\ EffectsFlushed
  /\ simliClient
  /\ \/ simliPc = "new" /\ simliPc' = "connected"
     \/ simliPc = "connected" /\ simliPc' \in {"completed", "disconnected"}
     \/ simliPc = "disconnected" /\ simliPc' = "connected"
  /\ UNCHANGED <<resample, simliConfigured, simliClient, simliDc, bufVars, items,
                 isConnected, isRecording, ctxVars, clientVars, recorder, procVars>>

SimliDcChange ==
  /\ EffectsFlushed
  /\ simliClient
  /\ \/ simliDc = "connecting" /\ simliDc' = "open"
     \/ simliDc = "open" /\ simliDc' = "closed"
  /\ UNCHANGED <<resample, simliConfigured, simliClient, simliPc, bufVars, items,
                 isConnected, isRecording, ctxVars, clientVars, recorder, procVars>>

\* one call of simliClientRef.current.sendAudioData, as the log keeps it
\* (id and len of the frame; at: the delta whose handler made the call, 0
\* for connectConversation; gate: the handler polled the gate open before it)
SendEntry(id, len, at, polled) == [id |-> id, len |-> len, at |-> at, gate |-> polled]

FrameEntry(frame, at, polled) == SendEntry(frame.id, frame.len, at, polled)

\* a drain that sends the buffered frames last to first
DrainSends_Reversed(buf, at) ==
  [k \in 1..Len(buf) |-> FrameEntry(buf[Len(buf) + 1 - k], at, TRUE)]

\* simliAudioBufferRef.current.forEach(send), in the handler of delta at
DrainSends(buf, at) == [k \in 1..Len(buf) |-> FrameEntry(buf[k], at, TRUE)]

\* --------------------------------------------------- AudioContext helpers
\* the id a new AudioContext() gets; none is left when it exceeds MaxCtx
NewCtx == Cardinality({c \in CtxIds : ctxState[c] # "none"}) + 1

\* What initializeAudioContext() can do when called: fail at construction
\* (it returns null), build a running context (it sets the state and returns
\* it at once), or build a suspended one (it awaits context.resume()).
InitOutcomes == {"fail", "running", "suspended"}

\* ----------------------------------------- client.on('conversation.interrupted')
\* an interruption that leaves the buffer as it is
ClearedBuffer_Kept == simliAudioBuffer

\* simliAudioBufferRef.current = []
ClearedBuffer == <<>>

ConversationInterrupted ==
  /\ EffectsFlushed
  /\ clientConnected
  /\ simliAudioBuffer' = ClearedBuffer
  /\ discarded' = discarded \cup {simliAudioBuffer[k].id : k \in 1..Len(simliAudioBuffer)}
  /\ UNCHANGED <<resample, simliVars, sendLog, items, isConnected, isRecording, ctxVars,
                 clientConnected, turnDetection, conv, itemObj, nDelta, recorder,
                 procVars>>

\* ------------------------------------------- client.on('conversation.updated')
\* a drain that leaves the frames in the buffer
BufferAfterDrain_Kept == simliAudioBuffer

\* The audio delta branch: resample, poll the gate, drain and send or enqueue.
\* After the drain: simliAudioBufferRef.current = []
BufferAfterDrain == <<>>

\* The frame of a delta: the audio resampled from 24 kHz to 16 kHz and viewed
\* as bytes.  The model keeps the frame's identity and its length in bytes.
NewFrame(id, audio) ==
  [id |-> id, len |-> ByteLength(resampleAudioData(audio, ModelRate, SimliRate))]

\* a drain after which the frame of the delta is not sent
SendsOfDrain_WithoutNew(buf, frame) == DrainSends(buf, frame.id)

SendsOfDrain(buf, frame) ==
  DrainSends(buf, frame.id) \o <<FrameEntry(frame, frame.id, TRUE)>>

\* a delta branch that does not test whether an avatar client exists
DeltaBranch_NoClientTest(hasAudio, audio) ==
  IF hasAudio
  THEN LET frame == NewFrame(nDelta + 1, audio)
       IN  IF isSimliDataChannelOpen
           THEN /\ sendLog' = sendLog \o SendsOfDrain(simliAudioBuffer, frame)
                /\ simliAudioBuffer' = <<>>
           ELSE /\ simliAudioBuffer' = Append(simliAudioBuffer, frame)
                /\ sendLog' = sendLog
  ELSE UNCHANGED <<simliAudioBuffer, sendLog>>

\* a delta branch that sends when the gate is open and enqueues in any case
DeltaBranch_AlwaysEnqueue(hasAudio, audio) ==
  IF hasAudio /\ simliClient
  THEN LET frame == NewFrame(nDelta + 1, audio)
       IN  /\ simliAudioBuffer' = Append(simliAudioBuffer, frame)
           /\ sendLog' = IF isSimliDataChannelOpen
                         THEN Append(sendLog, FrameEntry(frame, frame.id, TRUE))
                         ELSE sendLog
  ELSE UNCHANGED <<simliAudioBuffer, sendLog>>

DeltaBranch(hasAudio, audio) ==
  IF hasAudio /\ simliClient
  THEN LET frame == NewFrame(nDelta + 1, audio)
       IN  IF isSimliDataChannelOpen
           THEN /\ sendLog' = sendLog \o SendsOfDrain(simliAudioBuffer, frame)
                /\ simliAudioBuffer' =
                     IF Len(simliAudioBuffer) > 0 THEN BufferAfterDrain
                     ELSE simliAudioBuffer
           ELSE /\ simliAudioBuffer' = Append(simliAudioBuffer, frame)
                /\ sendLog' = sendLog
  ELSE UNCHANGED <<simliAudioBuffer, sendLog>>

\* The rest of the handler for an event about item i: objs and ids are the
\* item objects and the conversation after the client applied the event.
\* A completed item with audio suspends the handler on WavRecorder.decode;
\* otherwise the snapshot read at the start is published at once.
UpdatedTail(i, objs, ids) ==
  IF objs[i].status = "completed" /\ objs[i].hasAudio
  THEN /\ decs' = Append(decs, [pc |-> "decode", item |-> i, snap |-> ids,
                                ctx |-> effectCtx, made |-> 0, audio |-> "none"])
       /\ items' = items
  ELSE /\ items' = ids
       /\ decs' = decs

\* room for one more suspended handler, if this event would suspend one
DecodeRoom(i, objs) ==
  (objs[i].status = "completed" /\ objs[i].hasAudio) => Len(decs) < MaxDecodes

\* a new item appears in the conversation (no delta)
ItemCreated(i) ==
  /\ EffectsFlushed
  /\ clientConnected
  /\ itemObj[i].status = "absent"
  /\ LET objs == [itemObj EXCEPT ![i].status = "in_progress"]
         ids  == conv \cup {i}
     IN  /\ itemObj' = objs
         /\ conv' = ids
         /\ DeltaBranch(FALSE, <<>>)
         /\ UpdatedTail(i, objs, ids)
  /\ UNCHANGED <<resample, simliVars, discarded, isConnected, isRecording, ctxVars,
                 clientConnected, turnDetection, nDelta, recorder,
                 conns, discs, starts, stops>>

\* an audio delta of an item in progress
AudioDelta(max, i, audio) ==
  /\ EffectsFlushed
  /\ clientConnected
  /\ nDelta < max
  /\ i \in conv
  /\ itemObj[i].status = "in_progress"
  /\ LET objs == [itemObj EXCEPT ![i].hasAudio = TRUE]
     IN  /\ itemObj' = objs
         /\ nDelta' = nDelta + 1
         /\ DeltaBranch(TRUE, audio)
         /\ UpdatedTail(i, objs, conv)
  /\ UNCHANGED <<resample, simliVars, discarded, isConnected, isRecording, ctxVars,
                 clientConnected, turnDetection, conv, recorder,
                 conns, discs, starts, stops>>

\* An audio delta whose handler polls the gate open and is ended by a call of
\* sendAudioData that throws: call number j of the calls the handler would
\* make (the frames that wait, in order, then the new frame).  The calls up to
\* and including call j were made.  A throw inside the forEach leaves the
\* handler before the buffer is cleared; a throw of the call for the new
\* frame comes after the clear.  Nothing after the throwing call runs: the
\* new frame is not kept, no decode is started and no list is published.
AudioDeltaSendThrows(max, i, audio) ==
  /\ EffectsFlushed
  /\ clientConnected
  /\ nDelta < max
  /\ i \in conv
  /\ itemObj[i].status = "in_progress"
  /\ simliClient
  /\ isSimliDataChannelOpen
  /\ itemObj' = [itemObj EXCEPT ![i].hasAudio = TRUE]
  /\ nDelta' = nDelta + 1
  /\ LET frame == NewFrame(nDelta + 1, audio)
         calls == SendsOfDrain(simliAudioBuffer, frame)
     IN  \E j \in 1..Len(calls) :
           /\ sendLog' = sendLog \o SubSeq(calls, 1, j)
           /\ simliAudioBuffer' =
                IF j <= Len(simliAudioBuffer) THEN simliAudioBuffer
                ELSE IF Len(simliAudioBuffer) > 0 THEN BufferAfterDrain
                ELSE simliAudioBuffer
  /\ UNCHANGED <<resample, simliConfigured, simliClient, simliPc, simliDc,
                 discarded, items, isConnected, isRecording, ctxVars,
                 clientConnected, turnDetection, conv, recorder,
                 conns, discs, starts, stops, decs>>

\* a transcript delta of an item (no audio in the delta)
TranscriptDelta(i) ==
  /\ EffectsFlushed
  /\ clientConnected
  /\ i \in conv
  /\ itemObj[i].transcript = 0
  /\ LET objs == [itemObj EXCEPT ![i].transcript = 1]
     IN  /\ DecodeRoom(i, objs)
         /\ itemObj' = objs
         /\ DeltaBranch(FALSE, <<>>)
         /\ UpdatedTail(i, objs, conv)
  /\ UNCHANGED <<resample, simliVars, discarded, isConnected, isRecording, ctxVars,
                 clientConnected, turnDetection, conv, nDelta,
                 recorder, conns, discs, starts, stops>>

\* the item is done: its status becomes "completed" (no delta)
ItemCompleted(i) ==
  /\ EffectsFlushed
  /\ clientConnected
  /\ i \in conv
  /\ itemObj[i].status = "in_progress"
  /\ LET objs == [itemObj EXCEPT ![i].status = "completed"]
     IN  /\ DecodeRoom(i, objs)
         /\ itemObj' = objs
         /\ DeltaBranch(FALSE, <<>>)
         /\ UpdatedTail(i, objs, conv)
  /\ UNCHANGED <<resample, simliVars, discarded, isConnected, isRecording, ctxVars,
                 clientConnected, turnDetection, conv, nDelta,
                 recorder, conns, discs, starts, stops>>

\* a rejection that is not caught: the handler ends there, nothing is published
DecodeRejected_Uncaught(d) ==
  /\ decs' = [decs EXCEPT ![d].pc = "done", ![d].audio = "none"]
  /\ items' = items

\* WavRecorder.decode rejects: the catch logs it, and the handler goes on to
\* setItems(items) with the snapshot it read
DecodeRejected(d) ==
  /\ decs' = [decs EXCEPT ![d].pc = "done", ![d].audio = "none"]
  /\ items' = decs[d].snap

\* a decode that attaches the file and wipes the item's transcript
AttachFile_WipesTranscript(objs, i) ==
  [objs EXCEPT ![i].file = TRUE, ![i].transcript = 0]

\* item.formatted.file = wavFile
AttachFile(objs, i) == [objs EXCEPT ![i].file = TRUE]

\* The handler resumes from WavRecorder.decode.  On success the file is
\* attached to the item; a missing or suspended context (as the handler's
\* closure holds it) is then initialised or resumed; an Audio element is
\* made; and the snapshot is published.  A failure is caught and logged,
\* and the snapshot is published without the rest.
DecodeDone(d) ==
  /\ EffectsFlushed
  /\ d \in DOMAIN decs
  /\ decs[d].pc = "decode"
  /\ LET me == decs[d]
         h  == me.ctx
         finish(audio) ==
           /\ decs' = [decs EXCEPT ![d].pc = "done", ![d].audio = audio]
           /\ items' = me.snap
     IN  \/ \* decode rejects
            /\ DecodeRejected(d)
            /\ UNCHANGED <<itemObj, audioContext, ctxState>>
         \/ \* decode resolves
            /\ itemObj' = AttachFile(itemObj, me.item)
            /\ IF h = 0
               THEN \E out \in InitOutcomes :
                      CASE out = "fail" ->
                             /\ decs' = [decs EXCEPT ![d].pc = "initReturn"]
                             /\ UNCHANGED <<audioContext, ctxState, items>>
                        [] out = "running" ->
                             /\ NewCtx <= MaxCtx
                             /\ ctxState' = [ctxState EXCEPT ![NewCtx] = "running"]
                             /\ audioContext' = NewCtx
                             /\ decs' = [decs EXCEPT ![d].pc = "initReturn"]
                             /\ items' = items
                        [] out = "suspended" ->
                             /\ NewCtx <= MaxCtx
                             /\ ctxState' = [ctxState EXCEPT ![NewCtx] = "suspended"]
                             /\ decs' = [decs EXCEPT ![d].pc = "initResume",
                                                     ![d].made = NewCtx]
                             /\ UNCHANGED <<audioContext, items>>
               ELSE IF ctxState[h] = "suspended"
                    THEN /\ decs' = [decs EXCEPT ![d].pc = "ctxResume"]
                         /\ UNCHANGED <<audioContext, ctxState, items>>
                    ELSE /\ finish("loading")
                         /\ UNCHANGED <<audioContext, ctxState>>
  /\ UNCHANGED <<resample, simliVars, bufVars, isConnected, isRecording, effectCtx,
                 clientConnected, turnDetection, conv, nDelta,
                 recorder, conns, discs, starts, stops>>

\* The handler resumes: from initializeAudioContext(), which has returned
\* (a microtask); or from context.resume() inside initializeAudioContext()
\* (a failure is caught there, and it returns); or from ctx.resume() on the
\* context its closure holds (a rejection is caught by the handler).
DecodeResumeDone(d) ==
  /\ d \in DOMAIN decs
  /\ decs[d].pc \in {"initReturn", "initResume", "ctxResume"}
  /\ LET me == decs[d]
     IN  IF me.pc = "initReturn"
         THEN /\ decs' = [decs EXCEPT ![d].pc = "done", ![d].audio = "loading"]
              /\ items' = me.snap
              /\ UNCHANGED <<audioContext, ctxState>>
         ELSE /\ EffectsFlushed
              /\ \E ok \in BOOLEAN :
                   IF me.pc = "initResume"
                   THEN /\ decs' = [decs EXCEPT ![d].pc = "initReturn"]
                        /\ items' = items
                        /\ IF ok
                           THEN /\ ctxState' = [ctxState EXCEPT ![me.made] = "running"]
                                /\ audioContext' = me.made
                           ELSE UNCHANGED <<audioContext, ctxState>>
                   ELSE /\ decs' = [decs EXCEPT ![d].pc = "done",
                                                ![d].audio = IF ok THEN "loading" ELSE "none"]
                        /\ items' = me.snap
                        /\ ctxState' = IF ok THEN [ctxState EXCEPT ![me.ctx] = "running"]
                                       ELSE ctxState
                        /\ UNCHANGED audioContext
  /\ UNCHANGED <<resample, simliVars, bufVars, isConnected, isRecording, effectCtx,
                 clientVars, recorder, conns, discs, starts, stops>>

\* The Audio element made for a completed item: 'canplaythrough' starts its
\* playback, 'ended' ends it.
AudioElementEvent(d) ==
  /\ EffectsFlushed
  /\ d \in DOMAIN decs
  /\ \/ decs[d].audio = "loading" /\ decs' = [decs EXCEPT ![d].audio = "playing"]
     \/ decs[d].audio = "playing" /\ decs' = [decs EXCEPT ![d].audio = "ended"]
  /\ UNCHANGED <<resample, simliVars, bufVars, items, isConnected, isRecording, ctxVars,
                 clientVars, recorder, conns, discs, starts, stops>>

\* ------------------------------------------------------- the main useEffect
\* audioContext is a dependency of the effect: when it changed, React runs
\* the cleanup (client.reset(), close of the avatar client) and the effect
\* again (a new avatar client if configured, the handlers registered anew,
\* the item list read from the conversation that reset() emptied).
MainEffectRerun ==
  /\ effectCtx # audioContext
  /\ effectCtx' = audioContext
  /\ clientConnected' = FALSE
  /\ conv' = {}
  /\ items' = {}
  /\ IF simliConfigured
     THEN /\ simliClient' = TRUE
          /\ simliPc' = "null"
          /\ simliDc' = "null"
     ELSE UNCHANGED <<simliClient, simliPc, simliDc>>
  /\ UNCHANGED <<resample, simliConfigured, bufVars, isConnected, isRecording, audioContext,
                 ctxState, turnDetection, itemObj, nDelta, recorder,
                 procVars>>

\* -------------------------------------------------------- connectConversation
\* one entry of an invocation's log of collaborator calls and their returns
Call(op) == [op |-> op, trackId |-> "", offset |-> 0]

SilenceEntry == SendEntry(0, SilenceLen, 0, FALSE)

\* From setIsConnected(true) to the call of client.connect(): the flags, the
\* item list, and start() and the silence frame on the avatar client.
ConnectBody(newConns) ==
  /\ conns' = newConns
  /\ isConnected' = TRUE
  /\ items' = conv
  /\ IF simliClient
     THEN /\ simliPc' = "new"
          /\ simliDc' = "connecting"
          /\ sendLog' = Append(sendLog, SilenceEntry)
     ELSE UNCHANGED <<simliPc, simliDc, sendLog>>

\* A click on Connect: the audio context is initialised or resumed first.
ConnectClick(max) ==
  /\ EffectsFlushed
  /\ ~isConnected
  /\ Len(conns) < max
  /\ LET c == audioContext
         new(pc, ctx) ==
           Append(conns, [pc |-> pc, ctx |-> ctx,
                          calls |-> IF pc = "clientConnect"
                                    THEN <<Call("connect")>> ELSE <<>>])
     IN  IF c = 0
         THEN \E out \in InitOutcomes :
                CASE out = "fail" ->
                       /\ conns' = new("done", 0)
                       /\ UNCHANGED <<audioContext, ctxState, isConnected, items,
                                      simliPc, simliDc, sendLog>>
                  [] out = "running" ->
                       /\ NewCtx <= MaxCtx
                       /\ ctxState' = [ctxState EXCEPT ![NewCtx] = "running"]
                       /\ audioContext' = NewCtx
                       /\ conns' = new("initReturn", NewCtx)
                       /\ UNCHANGED <<isConnected, items, simliPc, simliDc, sendLog>>
                  [] out = "suspended" ->
                       /\ NewCtx <= MaxCtx
                       /\ ctxState' = [ctxState EXCEPT ![NewCtx] = "suspended"]
                       /\ conns' = new("initResume", NewCtx)
                       /\ UNCHANGED <<audioContext, isConnected, items,
                                      simliPc, simliDc, sendLog>>
         ELSE IF ctxState[c] = "suspended"
              THEN /\ conns' = new("ctxResume", c)
                   /\ UNCHANGED <<audioContext, ctxState, isConnected, items,
                                  simliPc, simliDc, sendLog>>
              ELSE /\ ConnectBody(new("clientConnect", c))
                   /\ UNCHANGED <<audioContext, ctxState>>
  /\ UNCHANGED <<resample, simliConfigured, simliClient, simliAudioBuffer, discarded,
                 isRecording, effectCtx, clientVars, recorder, discs, starts,
                 stops, decs>>

\* connectConversation resumes: from initializeAudioContext(), which has
\* returned the context it set (a microtask); or from a resume() of the
\* audio context, inside initializeAudioContext() (which then sets the
\* context and returns it) or in connectConversation itself.
ConnectResumeDone(k) ==
  /\ k \in DOMAIN conns
  /\ conns[k].pc \in {"initReturn", "initResume", "ctxResume"}
  /\ IF conns[k].pc = "initReturn"
     THEN /\ ConnectBody([conns EXCEPT ![k].pc = "clientConnect",
                                            ![k].calls = <<Call("connect")>>])
          /\ UNCHANGED <<audioContext, ctxState>>
     ELSE /\ EffectsFlushed
          /\ \E ok \in BOOLEAN :
               IF ~ok
               THEN /\ conns' = [conns EXCEPT ![k].pc = "done"]
                    /\ UNCHANGED <<audioContext, ctxState, isConnected, items,
                                   simliPc, simliDc, sendLog>>
               ELSE /\ ctxState' = [ctxState EXCEPT ![conns[k].ctx] = "running"]
                    /\ IF conns[k].pc = "initResume"
                       THEN /\ audioContext' = conns[k].ctx
                            /\ conns' = [conns EXCEPT ![k].pc = "initReturn"]
                            /\ UNCHANGED <<isConnected, items, simliPc, simliDc,
                                           sendLog>>
                       ELSE /\ audioContext' = audioContext
                            /\ ConnectBody([conns EXCEPT ![k].pc = "clientConnect",
                                            ![k].calls = <<Call("connect")>>])
  /\ UNCHANGED <<resample, simliConfigured, simliClient, simliAudioBuffer, discarded,
                 isRecording, effectCtx, clientVars, recorder, discs, starts,
                 stops, decs>>

\* await client.connect() is over; wavRecorder.begin() is called
ConnectClientDone(k) ==
  /\ EffectsFlushed
  /\ k \in DOMAIN conns
  /\ conns[k].pc = "clientConnect"
  /\ clientConnected' = TRUE
  /\ conns' = [conns EXCEPT ![k].pc = "recorderBegin",
                            ![k].calls = @ \o <<Call("connect.done"), Call("begin")>>]
  /\ UNCHANGED <<resample, simliVars, bufVars, items, isConnected, isRecording, ctxVars,
                 turnDetection, conv, itemObj, nDelta, recorder,
                 discs, starts, stops, decs>>

\* await wavRecorder.begin() is over; wavStreamPlayer.connect() is called
ConnectRecorderDone(k) ==
  /\ EffectsFlushed
  /\ k \in DOMAIN conns
  /\ conns[k].pc = "recorderBegin"
  /\ recorder' = IF recorder = "ended" THEN "paused" ELSE recorder
  /\ conns' = [conns EXCEPT ![k].pc = "playerConnect",
                            ![k].calls = @ \o <<Call("begin.done"), Call("playerConnect")>>]
  /\ UNCHANGED <<resample, simliVars, bufVars, items, isConnected, isRecording, ctxVars,
                 clientVars, discs, starts, stops, decs>>

\* a connect that starts capture whatever the mode is
StartsCapture_Always(mode) == TRUE

\* client.getTurnDetectionType() === 'server_vad'
StartsCapture(mode) == mode = "server_vad"

\* the log once wavStreamPlayer.connect() has returned: the mode is read,
\* and record() is called when it is 'server_vad'
AfterPlayerConnect(calls, mode) ==
  calls \o <<Call("playerConnect.done"), Call("getTurnDetectionType")>>
        \o (IF StartsCapture(mode) THEN <<Call("record")>> ELSE <<>>)

\* await wavStreamPlayer.connect() is over; the turn-detection mode is read
\* and, under server VAD, wavRecorder.record() is called
ConnectPlayerDone(k) ==
  /\ EffectsFlushed
  /\ k \in DOMAIN conns
  /\ conns[k].pc = "playerConnect"
  /\ conns' = [conns EXCEPT ![k].pc =
                 IF StartsCapture(turnDetection) THEN "record" ELSE "done",
                            ![k].calls = AfterPlayerConnect(@, turnDetection)]
  /\ UNCHANGED <<resample, simliVars, bufVars, items, isConnected, isRecording, ctxVars,
                 clientVars, recorder, discs, starts, stops, decs>>

\* await wavRecorder.record() is over: capture is active
ConnectRecordDone(k) ==
  /\ EffectsFlushed
  /\ k \in DOMAIN conns
  /\ conns[k].pc = "record"
  /\ recorder' = IF recorder = "ended" THEN recorder ELSE "recording"
  /\ conns' = [conns EXCEPT ![k].pc = "done",
                            ![k].calls = Append(@, Call("record.done"))]
  /\ UNCHANGED <<resample, simliVars, bufVars, items, isConnected, isRecording, ctxVars,
                 clientVars, discs, starts, stops, decs>>

\* ----------------------------------------------------- disconnectConversation
\* A click on Disconnect: the flags and the item list are reset, the client
\* is disconnected (which empties its conversation), wavRecorder.end() is called.
DisconnectClick(max) ==
  /\ EffectsFlushed
  /\ isConnected
  /\ Len(discs) < max
  /\ isConnected' = FALSE
  /\ items' = {}
  /\ clientConnected' = FALSE
  /\ conv' = {}
  /\ discs' = Append(discs, [pc |-> "recorderEnd", ctx |-> audioContext])
  /\ UNCHANGED <<resample, simliVars, bufVars, isRecording, ctxVars, turnDetection,
                 itemObj, nDelta, recorder, conns, starts, stops, decs>>

\* await wavRecorder.end() is over; wavStreamPlayer.interrupt() is called
DisconnectRecorderDone(k) ==
  /\ EffectsFlushed
  /\ k \in DOMAIN discs
  /\ discs[k].pc = "recorderEnd"
  /\ recorder' = "ended"
  /\ discs' = [discs EXCEPT ![k].pc = "interrupt"]
  /\ UNCHANGED <<resample, simliVars, bufVars, items, isConnected, isRecording, ctxVars,
                 clientVars, conns, starts, stops, decs>>

\* await wavStreamPlayer.interrupt() is over; the avatar client is closed and
\* close() of the audio context (as the callback's closure holds it) is called
DisconnectInterruptDone(k) ==
  /\ EffectsFlushed
  /\ k \in DOMAIN discs
  /\ discs[k].pc = "interrupt"
  /\ IF simliClient
     THEN /\ simliPc' = IF simliPc = "null" THEN "null" ELSE "closed"
          /\ simliDc' = IF simliDc = "null" THEN "null" ELSE "closed"
     ELSE UNCHANGED <<simliPc, simliDc>>
  /\ discs' = [discs EXCEPT ![k].pc = IF discs[k].ctx # 0 THEN "ctxClose" ELSE "done"]
  /\ UNCHANGED <<resample, simliConfigured, simliClient, bufVars, items, isConnected,
                 isRecording, ctxVars, clientVars, recorder, conns, starts,
                 stops, decs>>

\* await audioContext.close() is over: on success the state is set to null;
\* a rejection (the context was closed already) is caught and logged
DisconnectCloseDone(k) ==
  /\ EffectsFlushed
  /\ k \in DOMAIN discs
  /\ discs[k].pc = "ctxClose"
  /\ discs' = [discs EXCEPT ![k].pc = "done"]
  /\ IF ctxState[discs[k].ctx] # "closed"
     THEN /\ ctxState' = [ctxState EXCEPT ![discs[k].ctx] = "closed"]
          /\ audioContext' = 0
     ELSE UNCHANGED <<audioContext, ctxState>>
  /\ UNCHANGED <<resample, simliVars, bufVars, items, isConnected, isRecording, effectCtx,
                 clientVars, recorder, conns, starts, stops, decs>>

\* ------------------------------------------------------------- startRecording
\* a cancellation that passes no offset
CancelCall_NoOffset(trackId, offset) ==
  [op |-> "cancelResponse", trackId |-> trackId, offset |-> 0]

CancelCall(trackId, offset) ==
  [op |-> "cancelResponse", trackId |-> trackId, offset |-> offset]

\* what a call of record() or pause() on a recorder in the wrong state does:
\* the recorder may refuse it with an exception, or carry it out
MisuseOutcomes == {"throw", "proceed"}

BufferIds == {simliAudioBuffer[k].id : k \in 1..Len(simliAudioBuffer)}

\* From setIsRecording(true) to the call of wavStreamPlayer.interrupt().
StartBody(newStarts) ==
  /\ starts' = newStarts
  /\ isRecording' = TRUE

\* Mouse down on the talk button (enabled while isConnected).
Press(max) ==
  /\ EffectsFlushed
  /\ isConnected
  /\ Len(starts) < max
  /\ LET c == audioContext
         new(pc, made, calls) ==
           Append(starts, [pc |-> pc, made |-> made, tso |-> NoTrack,
                           calls |-> calls, held |-> BufferIds])
     IN  IF c = 0
         THEN \E out \in InitOutcomes :
                CASE out = "fail" ->
                       /\ starts' = new("initReturn", 0, <<>>)
                       /\ UNCHANGED <<audioContext, ctxState, isRecording>>
                  [] out = "running" ->
                       /\ NewCtx <= MaxCtx
                       /\ ctxState' = [ctxState EXCEPT ![NewCtx] = "running"]
                       /\ audioContext' = NewCtx
                       /\ starts' = new("initReturn", NewCtx, <<>>)
                       /\ UNCHANGED isRecording
                  [] out = "suspended" ->
                       /\ NewCtx <= MaxCtx
                       /\ ctxState' = [ctxState EXCEPT ![NewCtx] = "suspended"]
                       /\ starts' = new("initResume", NewCtx, <<>>)
                       /\ UNCHANGED <<audioContext, isRecording>>
         ELSE IF ctxState[c] = "suspended"
              THEN /\ starts' = new("ctxResume", c, <<>>)
                   /\ UNCHANGED <<audioContext, ctxState, isRecording>>
              ELSE /\ StartBody(new("interrupt", c, <<Call("interrupt")>>))
                   /\ UNCHANGED <<audioContext, ctxState>>
  /\ UNCHANGED <<resample, simliVars, bufVars, items, isConnected, effectCtx, clientVars,
                 recorder, conns, discs, stops, decs>>

\* startRecording resumes: from initializeAudioContext(), which has returned
\* (a microtask); or from a resume() of the audio context, inside
\* initializeAudioContext() (a failure is caught there, and it returns) or
\* in startRecording itself (a rejection ends startRecording).
StartResumeDone(p) ==
  /\ p \in DOMAIN starts
  /\ starts[p].pc \in {"initReturn", "initResume", "ctxResume"}
  /\ LET go == [starts EXCEPT ![p].pc = "interrupt",
                              ![p].calls = <<Call("interrupt")>>]
         back == [starts EXCEPT ![p].pc = "initReturn"]
     IN  IF starts[p].pc = "initReturn"
         THEN /\ StartBody(go)
              /\ UNCHANGED <<audioContext, ctxState>>
         ELSE /\ EffectsFlushed
              /\ \E ok \in BOOLEAN :
                   IF starts[p].pc = "initResume"
                   THEN /\ starts' = back
                        /\ isRecording' = isRecording
                        /\ IF ok
                           THEN /\ ctxState' = [ctxState EXCEPT ![starts[p].made] = "running"]
                                /\ audioContext' = starts[p].made
                           ELSE UNCHANGED <<audioContext, ctxState>>
                   ELSE IF ok
                        THEN /\ ctxState' = [ctxState EXCEPT ![starts[p].made] = "running"]
                             /\ audioContext' = audioContext
                             /\ StartBody(go)
                        ELSE /\ starts' = [starts EXCEPT ![p].pc = "failed"]
                             /\ UNCHANGED <<audioContext, ctxState, isRecording>>
  /\ UNCHANGED <<resample, simliVars, bufVars, items, isConnected, effectCtx, clientVars,
                 recorder, conns, discs, stops, decs>>

\* The call of wavRecorder.record() by an invocation whose log is calls.
RecordCall(p, r, calls) ==
  IF recorder = "paused"
  THEN starts' = [starts EXCEPT ![p].pc = "record", ![p].tso = r,
                                ![p].calls = Append(calls, Call("record"))]
  ELSE \E out \in MisuseOutcomes :
         starts' = [starts EXCEPT
                      ![p].pc = IF out = "throw" THEN "failed" ELSE "record",
                      ![p].tso = r,
                      ![p].calls = Append(calls, Call("record"))]

\* a press that calls record() without awaiting the cancellation
AfterInterrupt_NoAwait(p, r) ==
  LET calls == Append(starts[p].calls, Call("interrupt.done"))
  IN  IF r.trackId # ""
      THEN RecordCall(p, r, Append(calls, CancelCall(r.trackId, r.offset)))
      ELSE RecordCall(p, r, calls)

\* a press that cancels whatever the interrupt returned
AfterInterrupt_AlwaysCancel(p, r) ==
  starts' = [starts EXCEPT
               ![p].pc = "cancel", ![p].tso = r,
               ![p].calls = starts[p].calls
                              \o <<Call("interrupt.done"),
                                   CancelCall(r.trackId, r.offset)>>]

\* After the interrupt: cancel the response if a track was playing, else
\* go on to record().
AfterInterrupt(p, r) ==
  LET calls == Append(starts[p].calls, Call("interrupt.done"))
  IN  IF r.trackId # ""
      THEN starts' = [starts EXCEPT
                        ![p].pc = "cancel", ![p].tso = r,
                        ![p].calls = Append(calls, CancelCall(r.trackId, r.offset))]
      ELSE RecordCall(p, r, calls)

\* await wavStreamPlayer.interrupt() is over and resolved to r
StartInterruptDone(p, r) ==
  /\ EffectsFlushed
  /\ p \in DOMAIN starts
  /\ starts[p].pc = "interrupt"
  /\ AfterInterrupt(p, r)
  /\ UNCHANGED <<resample, simliVars, bufVars, items, isConnected, isRecording, ctxVars,
                 clientVars, recorder, conns, discs, stops, decs>>

\* await client.cancelResponse() is over; wavRecorder.record() is called
StartCancelDone(p) ==
  /\ EffectsFlushed
  /\ p \in DOMAIN starts
  /\ starts[p].pc = "cancel"
  /\ RecordCall(p, starts[p].tso, Append(starts[p].calls, Call("cancelResponse.done")))
  /\ UNCHANGED <<resample, simliVars, bufVars, items, isConnected, isRecording, ctxVars,
                 clientVars, recorder, conns, discs, stops, decs>>

\* await wavRecorder.record() is over: capture is active
StartRecordDone(p) ==
  /\ EffectsFlushed
  /\ p \in DOMAIN starts
  /\ starts[p].pc = "record"
  /\ recorder' = IF recorder = "ended" THEN recorder ELSE "recording"
  /\ starts' = [starts EXCEPT ![p].pc = "done",
                              ![p].calls = Append(@, Call("record.done"))]
  /\ UNCHANGED <<resample, simliVars, bufVars, items, isConnected, isRecording, ctxVars,
                 clientVars, conns, discs, stops, decs>>

\* -------------------------------------------------------------- stopRecording
\* Mouse up on the talk button: the flag is cleared, wavRecorder.pause() is
\* called.
Release(max) ==
  /\ EffectsFlushed
  /\ isConnected
  /\ Len(stops) < max
  /\ isRecording' = FALSE
  /\ LET new(pc) == Append(stops, [pc |-> pc, calls |-> <<Call("pause")>>,
                                   was |-> recorder = "recording" /\ isRecording,
                                   presses |-> Len(starts)])
     IN  IF recorder = "recording"
         THEN stops' = new("pause")
         ELSE \E out \in MisuseOutcomes :
                stops' = new(IF out = "throw" THEN "failed" ELSE "pause")
  /\ UNCHANGED <<resample, simliVars, bufVars, items, isConnected, ctxVars, clientVars,
                 recorder, conns, discs, starts, decs>>

\* a release that requests the response twice
AfterPause_Twice(calls) ==
  calls \o <<Call("pause.done"), Call("createResponse"), Call("createResponse")>>

\* the log once pause() has returned and createResponse() was called
AfterPause(calls) == calls \o <<Call("pause.done"), Call("createResponse")>>

\* await wavRecorder.pause() is over: capture is paused; a response is
\* requested with client.createResponse()
StopPauseDone(q) ==
  /\ EffectsFlushed
  /\ q \in DOMAIN stops
  /\ stops[q].pc = "pause"
  /\ recorder' = IF recorder = "recording" THEN "paused" ELSE recorder
  /\ stops' = [stops EXCEPT ![q].pc = "done",
                            ![q].calls = AfterPause(stops[q].calls)]
  /\ UNCHANGED <<resample, simliVars, bufVars, items, isConnected, isRecording, ctxVars,
                 clientVars, conns, discs, starts, decs>>

\* -------------------------------------------------------------- specification
\* connectConversation after the click
ConnectSteps ==
  \/ \E k \in DOMAIN conns : ConnectResumeDone(k)
  \/ \E k \in DOMAIN conns : ConnectClientDone(k)
  \/ \E k \in DOMAIN conns : ConnectRecorderDone(k)
  \/ \E k \in DOMAIN conns : ConnectPlayerDone(k)
  \/ \E k \in DOMAIN conns : ConnectRecordDone(k)

\* disconnectConversation after the click
DisconnectSteps ==
  \/ \E k \in DOMAIN discs : DisconnectRecorderDone(k)
  \/ \E k \in DOMAIN discs : DisconnectInterruptDone(k)
  \/ \E k \in DOMAIN discs : DisconnectCloseDone(k)

\* startRecording and stopRecording after the mouse event
TalkSteps ==
  \/ \E p \in DOMAIN starts, r \in InterruptResults : StartInterruptDone(p, r)
  \/ \E p \in DOMAIN starts : StartCancelDone(p)
  \/ \E p \in DOMAIN starts : StartRecordDone(p)
  \/ \E q \in DOMAIN stops : StopPauseDone(q)

\* the conversation.updated handler after its await of the decode
DecodeSteps ==
  \/ \E d \in DOMAIN decs : DecodeDone(d)
  \/ \E d \in DOMAIN decs : AudioElementEvent(d)

\* The whole page.
Next ==
  \/ SimliIceChange
  \/ SimliDcChange
  \/ ConversationInterrupted
  \/ \E i \in ItemIds : ItemCreated(i)
  \/ \E i \in ItemIds, a \in DeltaAudios : AudioDelta(MaxDeltas, i, a)
  \/ \E i \in ItemIds : TranscriptDelta(i)
  \/ \E i \in ItemIds : ItemCompleted(i)
  \/ DecodeSteps
  \/ \E d \in DOMAIN decs : DecodeResumeDone(d)
  \/ MainEffectRerun
  \/ ConnectClick(MaxConnects)
  \/ ConnectSteps
  \/ DisconnectClick(MaxConnects)
  \/ DisconnectSteps
  \/ Press(MaxPresses)
  \/ Release(MaxPresses)
  \/ \E p \in DOMAIN starts : StartResumeDone(p)
  \/ TalkSteps

Spec == Init /\ [][Next]_vars

\* The avatar pipeline over one session that the user opens with one click
\* on Connect and leaves open: the connect, the re-run of the main effect,
\* the transport's changes, the events of items in progress and the
\* interruptions.  The talk button is not used.
NextPipeline ==
  \/ SimliIceChange
  \/ SimliDcChange
  \/ ConversationInterrupted
  \/ \E i \in ItemIds : ItemCreated(i)
  \/ \E i \in ItemIds, a \in DeltaAudios : AudioDelta(MaxDeltas, i, a)
  \/ MainEffectRerun
  \/ ConnectClick(1)
  \/ ConnectSteps

SpecPipeline == Init /\ [][NextPipeline]_vars

\* The audio pipeline over one session with an avatar transport whose
\* sendAudioData may throw.
NextSendFailure ==
  \/ NextPipeline
  \/ \E i \in ItemIds, a \in DeltaAudios : AudioDeltaSendThrows(MaxDeltas, i, a)

SpecSendFailure == Init /\ [][NextSendFailure]_vars

\* The turn controller over one session: the connect, the re-run of the main
\* effect, and the talk button.  No server event is delivered.
NextTurn ==
  \/ MainEffectRerun
  \/ ConnectClick(1)
  \/ ConnectSteps
  \/ Press(MaxPresses)
  \/ Release(MaxPresses)
  \/ TalkSteps

SpecTurn == Init /\ [][NextTurn]_vars

\* Barge-in over one session: the connect, the re-run of the main effect,
\* the transport's changes, the events of the items up to their completion,
\* the decode and the playback of a completed item, and the talk button.
\* One audio delta is delivered.
NextBargeIn ==
  \/ SimliIceChange
  \/ SimliDcChange
  \/ \E i \in ItemIds : ItemCreated(i)
  \/ \E i \in ItemIds, a \in DeltaAudios : AudioDelta(1, i, a)
  \/ \E i \in ItemIds : ItemCompleted(i)
  \/ DecodeSteps
  \/ MainEffectRerun
  \/ ConnectClick(1)
  \/ ConnectSteps
  \/ Press(MaxPresses)
  \/ Release(MaxPresses)
  \/ TalkSteps

SpecBargeIn == Init /\ [][NextBargeIn]_vars

\* The conversation projection over one session with two items: the connect,
\* the re-run of the main effect, the events of the items (creation, one
\* audio delta, transcript, completion), the decode of a completed item and
\* its playback.
InitProjection == PageInitOver(ProjectionItems) /\ resample = NoResample

NextProjection ==
  \/ \E i \in ProjectionItems : ItemCreated(i)
  \/ \E i \in ProjectionItems, a \in DeltaAudios : AudioDelta(1, i, a)
  \/ \E i \in ProjectionItems : TranscriptDelta(i)
  \/ \E i \in ProjectionItems : ItemCompleted(i)
  \/ DecodeSteps
  \/ MainEffectRerun
  \/ ConnectClick(1)
  \/ ConnectSteps

SpecProjection == InitProjection /\ [][NextProjection]_vars

\* One session that the user ends: the connect, the re-run of the main
\* effect, the transport's changes, the events of the item up to its
\* completion (one audio delta), the decode of the completed item and its
\* playback, and the disconnect.
NextDisconnect ==
  \/ SimliIceChange
  \/ SimliDcChange
  \/ \E i \in ItemIds : ItemCreated(i)
  \/ \E i \in ItemIds, a \in DeltaAudios : AudioDelta(1, i, a)
  \/ \E i \in ItemIds : ItemCompleted(i)
  \/ DecodeSteps
  \/ MainEffectRerun
  \/ ConnectClick(1)
  \/ ConnectSteps
  \/ DisconnectClick(1)
  \/ DisconnectSteps

SpecDisconnect == Init /\ [][NextDisconnect]_vars

\* resampleAudioData on its own: one call on an input and a pair of rates.
InitResample ==
  /\ PageInit
  /\ \E input \in ResampleInputs, rates \in RatePairs :
       resample = [input |-> input, inRate |-> rates[1], outRate |-> rates[2],
                   output |-> <<>>, reads |-> {}, done |-> FALSE]

ResampleCall ==
  /\ ~resample.done
  /\ resample' = [resample EXCEPT
                    !.output = resampleAudioData(resample.input, resample.inRate,
                                                 resample.outRate),
                    !.reads = ReadsOf(resample.input, resample.inRate,
                                      resample.outRate),
                    !.done = TRUE]
  /\ UNCHANGED pageVars

NextResample == ResampleCall

SpecResample == InitResample /\ [][NextResample]_vars

\* ------------------------------------------------- readings of the histories
\* the frames of deltas among the calls of sendAudioData (the silence frame
\* of connectConversation has id 0)
SentFrames == SelectSeq(sendLog, LAMBDA e : e.id > 0)

\* the ids of the frames sent, then the ids of the frames waiting
PipelineOrder ==
  [k \in 1..Len(SentFrames) |-> SentFrames[k].id]
    \o [k \in 1..Len(simliAudioBuffer) |-> simliAudioBuffer[k].id]

\* the frames one handler sent, in the order of its calls
SentAt(h) == SelectSeq(sendLog, LAMBDA e : e.id > 0 /\ e.at = h)

\* ------------------------------------------------------- claims: the pipeline
\* C1: with an avatar client present, audio deltas handled while the gate is
\* closed are buffered; the handler of the first delta that finds the gate
\* open sends every buffered frame once, in arrival order, then the frame of
\* that delta, and leaves the buffer empty.  Over a run: the frames sent
\* followed by the frames waiting are the frames delivered and not cleared
\* by an interruption, once each and in arrival order; the frames one
\* handler sent end with that handler's own frame; and a frame still waiting
\* arrived after every handler that sent.
C1_DrainInOrderThenNew ==
  simliConfigured =>
    /\ Len(PipelineOrder) = Cardinality((1..nDelta) \ discarded)
    /\ \A k \in 1..Len(PipelineOrder) :
         /\ PipelineOrder[k] \in (1..nDelta) \ discarded
         /\ k > 1 => PipelineOrder[k - 1] < PipelineOrder[k]
    /\ \A k \in 1..Len(SentFrames) :
         LET e == SentFrames[k]
         IN  /\ e.id <= e.at
             /\ e.at <= nDelta
             /\ SentAt(e.at)[Len(SentAt(e.at))].id = e.at
             /\ e.len = 100
    /\ \A k \in 1..Len(simliAudioBuffer), j \in 1..Len(SentFrames) :
         simliAudioBuffer[k].id > SentFrames[j].at

\* three frames of 100 bytes waited, and the handler of the fourth delta
\* sent them and its own frame
C1_DrainedThree ==
  /\ simliAudioBuffer = <<>>
  /\ Len(SentAt(4)) = 4
  /\ \A k \in 1..4 : SentAt(4)[k].id = k /\ SentAt(4)[k].len = 100

\* C2: once conversation.interrupted is handled the buffer holds none of the
\* frames it held, and no frame that was in the buffer at an interruption is
\* ever sent to the avatar transport.
C2_InterruptDiscards ==
  /\ \A k \in 1..Len(sendLog) : sendLog[k].id \notin discarded
  /\ \A k \in 1..Len(simliAudioBuffer) : simliAudioBuffer[k].id \notin discarded

\* an interruption cleared waiting frames, and frames that arrived later
\* were sent
C2_SentAfterInterruption ==
  /\ discarded # {}
  /\ \E k \in 1..Len(SentFrames) : \A i \in discarded : SentFrames[k].id > i

\* C6: the gate reports ready exactly when an avatar client exists, its peer
\* connection exists with ICE state "connected" and its data channel exists
\* with ready state "open"; when any of them is absent it reports false and
\* does not fail.
C6_GateIffConnectedAndOpen ==
  GateResult = IF simliClient /\ simliPc = "connected" /\ simliDc = "open"
               THEN "true" ELSE "false"

\* a handler polled the gate open and sent, and the gate is polled false
\* now with the connection in ICE state "completed"
C6_GatePolledBothWays ==
  /\ \E k \in 1..Len(sendLog) : sendLog[k].gate
  /\ simliPc = "completed"
  /\ simliDc = "open"
  /\ GateResult = "false"

\* C7: a frame is put into the buffer only by a step that polls the gate and
\* reads it not ready: the step handles one audio delta, and the frame it
\* appends is the frame of that delta.
C7_EnqueueOnlyWhenGateClosed ==
  [][ (\E k \in 1..Len(simliAudioBuffer') :
         simliAudioBuffer'[k].id \notin BufferIds)
      => /\ ~isSimliDataChannelOpen
         /\ nDelta' = nDelta + 1
         /\ simliAudioBuffer' = Append(simliAudioBuffer, [id |-> nDelta', len |-> 100])
         /\ sendLog' = sendLog ]_vars

\* a frame waits that arrived after another frame was sent: the gate had
\* been open, and was polled closed again
C7_BufferedAfterSend ==
  \E k \in 1..Len(simliAudioBuffer), j \in 1..Len(SentFrames) :
    simliAudioBuffer[k].id > SentFrames[j].id

\* C8 as the specification states it: the buffered frames are flushed at the
\* moment the gate becomes open, so no state has the gate open and frames
\* waiting.
C8_FlushedWhenGateOpens ==
  isSimliDataChannelOpen => simliAudioBuffer = <<>>

\* C8, amended: frames that wait are sent only by the handler of an audio
\* delta; the gate becoming open sends nothing.  The handler of the first
\* audio delta that polls the gate open sends every waiting frame and leaves
\* the buffer empty; until then (or until an interruption clears them) the
\* frames wait, also while the gate is open.
C8_FlushedByNextDelta ==
  [][ /\ (nDelta' # nDelta /\ simliClient /\ isSimliDataChannelOpen)
         => /\ simliAudioBuffer' = <<>>
            /\ \A i \in BufferIds :
                 \E k \in Len(sendLog) + 1 .. Len(sendLog') : sendLog'[k].id = i
      /\ nDelta' = nDelta => sendLog' \in {sendLog, Append(sendLog, SilenceEntry)}
      /\ (nDelta' = nDelta /\ simliAudioBuffer' # simliAudioBuffer)
         => /\ simliAudioBuffer' = <<>>
            /\ discarded' = discarded \cup BufferIds ]_vars

\* frames waited while the gate was open, and a later delta's handler sent
\* them: two frames wait with the gate open now, after an earlier drain
C8_WaitingWithGateOpen ==
  /\ isSimliDataChannelOpen
  /\ Len(simliAudioBuffer) = 2
  /\ \E k \in 1..Len(SentFrames) : SentFrames[k].id < SentFrames[k].at

\* --------------------------------------------------- claims: the talk button
\* the operations of a log, in order
Ops(calls) == [k \in 1..Len(calls) |-> calls[k].op]

\* the calls of client.cancelResponse in a log
Cancels(calls) == SelectSeq(calls, LAMBDA c : c.op = "cancelResponse")

\* the interrupt of a press has returned
InterruptReturned(p) ==
  \E k \in 1..Len(starts[p].calls) : starts[p].calls[k].op = "interrupt.done"

\* the order of a press during playback
PressOrder ==
  << "interrupt", "interrupt.done", "cancelResponse", "cancelResponse.done",
     "record", "record.done" >>

\* C3: in a press whose interrupt returned a track and an offset,
\* cancelResponse is called exactly once, with that track and that offset.
C3_CancelOnceWithInterruptResult ==
  \A p \in DOMAIN starts :
    (InterruptReturned(p) /\ starts[p].tso.trackId # "")
      => Cancels(starts[p].calls)
           = << [op |-> "cancelResponse", trackId |-> starts[p].tso.trackId,
                 offset |-> starts[p].tso.offset] >>

\* a press ended whose interrupt returned track t1 at offset 240 and that
\* called cancelResponse("t1", 240)
C3_CancelledT1At240 ==
  \E p \in DOMAIN starts :
    /\ starts[p].pc = "done"
    /\ starts[p].tso = [trackId |-> "t1", offset |-> 240]
    /\ Cancels(starts[p].calls)
         = << [op |-> "cancelResponse", trackId |-> "t1", offset |-> 240] >>

\* C5: in a press whose interrupt returned a track, the calls go in this
\* order: the interrupt and its return, cancelResponse and its return, and
\* only then record(); capture is made active by the press no earlier.
C5_InterruptCancelThenRecord ==
  \A p \in DOMAIN starts :
    (InterruptReturned(p) /\ starts[p].tso.trackId # "")
      => /\ Len(starts[p].calls) <= Len(PressOrder)
         /\ Ops(starts[p].calls) = SubSeq(PressOrder, 1, Len(starts[p].calls))
         /\ starts[p].pc = "done" <=> Len(starts[p].calls) = Len(PressOrder)

\* a press during playback went through all its steps and capture is active
C5_PressRanToCapture ==
  \E p \in DOMAIN starts :
    /\ starts[p].tso.trackId # ""
    /\ Ops(starts[p].calls) = PressOrder
    /\ recorder = "recording"

\* C10: a release while recording (capture active, flag set) clears the
\* flag and calls pause(); when pause() has returned, capture is not active
\* and createResponse() has been called once, after it; the flag is still
\* clear then unless the button was pressed again in between.
C10_ReleasePausesThenRequests ==
  [][ \A q \in DOMAIN stops' :
        stops'[q].was =>
          /\ q \notin DOMAIN stops
               => /\ ~isRecording'
                  /\ stops'[q].pc = "pause"
                  /\ Ops(stops'[q].calls) = << "pause" >>
          /\ (q \in DOMAIN stops /\ stops'[q] # stops[q])
               => /\ stops[q].pc = "pause"
                  /\ stops'[q].pc = "done"
                  /\ Ops(stops'[q].calls) = << "pause", "pause.done", "createResponse" >>
                  /\ recorder' # "recording"
                  /\ Len(starts') = stops[q].presses => ~isRecording' ]_vars

\* a release while recording ran to its end: a response was requested, the
\* flag is clear and capture is paused
C10_ReleasedAndRequested ==
  \E q \in DOMAIN stops :
    /\ stops[q].was
    /\ stops[q].pc = "done"
    /\ Ops(stops[q].calls) = << "pause", "pause.done", "createResponse" >>
    /\ ~isRecording
    /\ recorder = "paused"

\* ----------------------------------------------------------- claims: barge-in
\* the turn state Recording: the recording flag is set or capture is active
Recording == isRecording \/ recorder = "recording"

\* model speech is active: the audio of a completed item is being played
ModelSpeaking == \E d \in DOMAIN decs : decs[d].audio = "playing"

\* C4: in every reachable state the turn state is not Recording and
\* ModelSpeaking at once: the recording flag is not set and capture is not
\* active while the audio of a completed item is being played.
C4_NeverRecordingWhileSpeaking == ~(Recording /\ ModelSpeaking)

\* C9: when startRecording has completed after a press during model speech
\* and capture is active, the buffer holds none of the avatar audio of that
\* speech that waited in it at the press.
C9_PressClearsBuffer ==
  \A p \in DOMAIN starts :
    (starts[p].pc = "done" /\ recorder = "recording")
      => starts[p].held \cap BufferIds = {}

\* ------------------------------------------------------- claims: the connect
\* the calls of connectConversation from client.connect() on, by mode
ConnectOrder(mode) ==
  << "connect", "connect.done", "begin", "begin.done", "playerConnect",
     "playerConnect.done", "getTurnDetectionType" >>
    \o (IF mode = "server_vad" THEN << "record", "record.done" >> ELSE <<>>)

\* C11: connectConversation reads the turn-detection mode once, after
\* client.connect(), wavRecorder.begin() and wavStreamPlayer.connect() have
\* returned; under 'server_vad' it then calls record(), and capture is active
\* when it ends without any press; under another mode it calls no record(),
\* and capture is active only once a press has run to its end.
C11_ModeReadOnceAfterConnect ==
  /\ \A k \in DOMAIN conns :
       /\ Len(conns[k].calls) <= Len(ConnectOrder(turnDetection))
       /\ Ops(conns[k].calls)
            = SubSeq(ConnectOrder(turnDetection), 1, Len(conns[k].calls))
       /\ (/\ turnDetection = "server_vad"
           /\ Len(conns[k].calls) = Len(ConnectOrder(turnDetection))
           /\ starts = <<>>
           /\ stops = <<>>) => recorder = "recording"
  /\ (turnDetection # "server_vad" /\ recorder = "recording")
       => \E p \in DOMAIN starts : starts[p].pc = "done"

\* under server VAD a connect ran to its end and capture is active though
\* the talk button was never pressed
C11_VadCaptureWithoutPress ==
  /\ turnDetection = "server_vad"
  /\ starts = <<>>
  /\ recorder = "recording"
  /\ \E k \in DOMAIN conns :
       Ops(conns[k].calls) = ConnectOrder("server_vad")

\* ----------------------------------------------------- claims: the resampler
Abs(x) == IF x >= 0 THEN x ELSE -x

\* n * outRate / inRate rounded to the nearest integer, a half rounded up:
\* the integer r with -1/2 < r - n * outRate / inRate <= 1/2
RoundedRatio(n, inRate, outRate) ==
  CHOOSE r \in 0..((n * outRate) \div inRate + 1) :
    /\ 2 * inRate * r - 2 * n * outRate > -inRate
    /\ 2 * inRate * r - 2 * n * outRate <= inRate

\* C12: the output of resampleAudioData has the length
\* round(inputLength * outputRate / inputRate), within one sample; 480
\* samples from 24000 to 16000 give 320 samples; an empty input gives an
\* empty output.
C12_OutputLength ==
  resample.done =>
    LET n == Len(resample.input)
        L == Len(resample.output)
    IN  /\ Abs(L - RoundedRatio(n, resample.inRate, resample.outRate)) <= 1
        /\ n = 0 => resample.output = <<>>
        /\ (n = 480 /\ resample.inRate = 24000 /\ resample.outRate = 16000)
             => L = 320

\* 480 samples were resampled from 24000 to 16000 into 320 samples
C12_Resampled480To320 ==
  /\ resample.done
  /\ Len(resample.input) = 480
  /\ resample.inRate = 24000
  /\ resample.outRate = 16000
  /\ Len(resample.output) = 320

\* C13: with the input rate equal to the output rate, the output of
\* resampleAudioData equals its input, sample for sample.
C13_SameRateIsIdentity ==
  (resample.done /\ resample.inRate = resample.outRate)
    => resample.output = resample.input

\* an input of three samples, not all equal, was resampled at equal rates
\* into itself
C13_ResampledAtSameRate ==
  /\ resample.done
  /\ resample.inRate = resample.outRate
  /\ Len(resample.input) = 3
  /\ resample.input[1] # resample.input[3]
  /\ resample.output = resample.input

\* ----------------------------------------------------- claims: the item list
\* C14: every conversation.updated event publishes the item list as the
\* session holds it, and the decode of a completed item's audio neither
\* delays nor disturbs that: whenever a handler of the event has run (an
\* item changed) or a list is published, the list published is the
\* session's list.
C14_PublishesSessionList ==
  [][ (itemObj' # itemObj \/ items' # items) => items' = conv' ]_vars

\* C15: when the decode of a completed item's audio fails, the handler
\* still publishes the item list it read for that event; the item keeps its
\* transcript and gets no file; the session stays connected, so later events
\* are handled.
C15_DecodeFailureRecovered ==
  [][ \A d \in DOMAIN decs :
        (decs[d].pc = "decode" /\ decs'[d].pc = "done" /\ decs'[d].audio = "none")
          => /\ items' = decs[d].snap
             /\ itemObj' = itemObj
             /\ conv' = conv
             /\ clientConnected' = clientConnected ]_vars

\* the decode of a completed item failed while the list had grown: the
\* list read for the event was published, the item has its transcript and
\* no file, and the session is connected
C15_FailureHandled ==
  \E d \in DOMAIN decs :
    /\ decs[d].pc = "done"
    /\ decs[d].audio = "none"
    /\ ~itemObj[decs[d].item].file
    /\ itemObj[decs[d].item].transcript = 1
    /\ items = decs[d].snap
    /\ conv = ProjectionItems
    /\ clientConnected

\* ------------------------------------------- claims: sends and their failures
\* the calls of sendAudioData a step adds to the log
NewSends == SubSeq(sendLog', Len(sendLog) + 1, Len(sendLog'))

\* C16: every call of sendAudioData is made by a handler that polled the
\* readiness gate and read it open before the call, the silence frame of
\* connectConversation included.
C16_EverySendAfterGatePoll ==
  \A k \in 1..Len(sendLog) : sendLog[k].gate

\* C18: the poll of the gate, the drain, the clear and the send of the new
\* frame (or the enqueue) are one step.  A step that sends a waiting frame
\* handles one audio delta, sends all the waiting frames in order and then
\* the frame of that delta, leaves the buffer empty and is no interruption;
\* the buffer changes only by being emptied or by getting the frame of the
\* delta handled; no frame is sent that was sent before, and with an avatar
\* client the frame of a delta is sent or waits after its step.
C18_DrainIsOneStep ==
  [][ /\ (\E k \in 1..Len(NewSends) : NewSends[k].id \in BufferIds)
         => /\ nDelta' = nDelta + 1
            /\ simliAudioBuffer' = <<>>
            /\ discarded' = discarded
            /\ Len(NewSends) = Len(simliAudioBuffer) + 1
            /\ \A j \in 1..Len(simliAudioBuffer) :
                 NewSends[j].id = simliAudioBuffer[j].id
            /\ NewSends[Len(NewSends)].id = nDelta'
      /\ Len(sendLog') >= Len(sendLog)
      /\ SubSeq(sendLog', 1, Len(sendLog)) = sendLog
      /\ simliAudioBuffer' # simliAudioBuffer
         => \/ simliAudioBuffer' = <<>>
            \/ /\ nDelta' = nDelta + 1
               /\ simliAudioBuffer'
                    = Append(simliAudioBuffer, [id |-> nDelta', len |-> 100])
      /\ \A k \in 1..Len(NewSends), j \in 1..Len(sendLog) :
           NewSends[k].id > 0 => NewSends[k].id # sendLog[j].id
      /\ (nDelta' # nDelta /\ simliClient)
         => \/ \E k \in 1..Len(NewSends) : NewSends[k].id = nDelta'
            \/ \E k \in 1..Len(simliAudioBuffer') :
                 simliAudioBuffer'[k].id = nDelta' ]_vars

\* the handler of the third delta sent the two frames that waited and then
\* its own frame, and a fourth frame waits since
C18_DrainedTwoThenWaiting ==
  /\ Len(SentAt(3)) = 3
  /\ \A k \in 1..3 : SentAt(3)[k].id = k
  /\ Len(simliAudioBuffer) = 1
  /\ simliAudioBuffer[1].id = 4

C19_EveryFrameSentAtMostOnce ==
  \A j, k \in 1..Len(sendLog) :
    (j # k /\ sendLog[j].id > 0) => sendLog[j].id # sendLog[k].id

\* ------------------------------------------- claims: the talk button, again
\* C21: when the interrupt of a press returns no track (the response was
\* over), the press calls no cancelResponse and goes straight on to
\* record(): the calls are the interrupt, its return and record(); on a
\* recorder that is ready (begun and paused) record() is accepted, and when
\* it returns capture is active and no cancelResponse was called.
C21_NoTrackNoCancel ==
  [][ \A p \in DOMAIN starts :
        /\ (/\ starts[p].pc = "interrupt"
            /\ starts'[p].pc # "interrupt"
            /\ starts'[p].tso.trackId = "")
             => /\ Ops(starts'[p].calls) = << "interrupt", "interrupt.done", "record" >>
                /\ starts'[p].pc # "cancel"
                /\ recorder = "paused" => starts'[p].pc = "record"
        /\ (/\ starts[p].pc = "record"
            /\ starts'[p].pc = "done"
            /\ starts[p].tso.trackId = "")
             => /\ Ops(starts'[p].calls)
                     = << "interrupt", "interrupt.done", "record", "record.done" >>
                /\ recorder = "paused" => recorder' = "recording" ]_vars

\* a press whose interrupt returned no track ran to its end without a
\* cancellation, and capture is active
C21_PressedAfterResponseEnded ==
  \E p \in DOMAIN starts :
    /\ starts[p].pc = "done"
    /\ starts[p].tso.trackId = ""
    /\ Ops(starts[p].calls) = << "interrupt", "interrupt.done", "record", "record.done" >>
    /\ recorder = "recording"
    /\ isRecording

\* ------------------------------------------- claims: the resampler, again
\* the integer part of i * inRate / outRate, from its definition: the index
\* l of the input with l <= i * inRate / outRate < l + 1
FloorOfSource(i, n, inRate, outRate) ==
  CHOOSE l \in 0..(n - 1) :
    l * outRate <= i * inRate /\ i * inRate < (l + 1) * outRate

\* C22: every index resampleAudioData reads from its input lies in
\* 0..inputLength-1, for the lower neighbour floor(i * ratio) and for the
\* upper neighbour of every output sample, the last one included: the upper
\* neighbour is the lower one plus one, or inputLength-1 where that would
\* lie past the end.
C22_ReadsInsideInput ==
  resample.done =>
    LET n == Len(resample.input)
    IN  /\ \A k \in resample.reads : k >= 0 /\ k <= n - 1
        /\ \A j \in 1..Len(resample.output) :
             \E l \in resample.reads :
               /\ l * resample.outRate <= (j - 1) * resample.inRate
               /\ (j - 1) * resample.inRate < (l + 1) * resample.outRate
               /\ (l + 1 <= n - 1) => (l + 1) \in resample.reads

\* three samples were resampled at equal rates: the upper neighbour of the
\* last output sample would be index 3, and the indices read are 0, 1 and 2
C22_LastNeighbourClamped ==
  /\ resample.done
  /\ resample.inRate = resample.outRate
  /\ Len(resample.input) = 3
  /\ Len(resample.output) = 3
  /\ resample.reads = {0, 1, 2}

\* C24: a call of resampleAudioData leaves its input as it was, and output
\* sample i is (1 - f) * input[lower] + f * input[upper] stored as a 16-bit
\* integer (the fraction cut off), with lower the integer part and f the
\* fractional part of i * inputRate / outputRate and upper the smaller of
\* lower + 1 and inputLength - 1.  The output is determined by the input and
\* the rates.
C24_LinearInterpolation ==
  [][ resample'.done =>
        /\ resample'.input = resample.input
        /\ resample'.inRate = resample.inRate
        /\ resample'.outRate = resample.outRate
        /\ LET in   == resample.input
               n    == Len(in)
               inR  == resample.inRate
               outR == resample.outRate
           IN  \A j \in 1..Len(resample'.output) :
                 LET lower == FloorOfSource(j - 1, n, inR, outR)
                     upper == IF lower + 1 <= n - 1 THEN lower + 1 ELSE n - 1
                     num   == (j - 1) * inR - lower * outR
                     v     == (outR - num) * in[lower + 1] + num * in[upper + 1]
                     y     == resample'.output[j]
                 IN  /\ y >= -32768 /\ y <= 32767
                     /\ v >= 0 => y >= 0
                     /\ v <= 0 => y <= 0
                     /\ Abs(y * outR) <= Abs(v)
                     /\ Abs(v) - Abs(y * outR) < outR ]_vars

\* the samples 5, -7, 0 were resampled at rates 3 to 2 into 5 and -3 (the
\* second between -7 and 0: -3.5, stored as -3)
C24_InterpolatedHalfway ==
  /\ resample.done
  /\ resample.inRate = 3
  /\ resample.outRate = 2
  /\ resample.input = << 5, -7, 0 >>
  /\ resample.output = << 5, -3 >>

\* ----------------------------------------------- claims: the decode step
\* C23: the step in which a handler resumes from the decode of a completed
\* item changes, of all the items, at most the file handle of that item: its
\* transcript, audio and status and every other item are as before, and so
\* is the conversation; the later steps of that handler change no item.
C23_DecodeAttachesFileOnly ==
  [][ \A d \in DOMAIN decs :
        decs'[d] # decs[d]
          => /\ conv' = conv
             /\ \A i \in DOMAIN itemObj :
                  /\ itemObj'[i].status = itemObj[i].status
                  /\ itemObj'[i].hasAudio = itemObj[i].hasAudio
                  /\ itemObj'[i].transcript = itemObj[i].transcript
                  /\ itemObj'[i].file # itemObj[i].file
                       => /\ i = decs[d].item
                          /\ decs[d].pc = "decode"
                          /\ itemObj'[i].file ]_vars

\* the file was attached to a completed item that has a transcript, while
\* another item is in progress, with a transcript and without a file
C23_FileAttachedBesideOtherItem ==
  \E i, j \in DOMAIN itemObj :
    /\ i # j
    /\ itemObj[i].status = "completed"
    /\ itemObj[i].file
    /\ itemObj[i].transcript = 1
    /\ itemObj[i].hasAudio
    /\ itemObj[j].status = "in_progress"
    /\ itemObj[j].transcript = 1
    /\ ~itemObj[j].file

\* ------------------------------------------ claims: the flag and the capture
\* no invocation of connectConversation, startRecording or stopRecording is
\* in flight
TalkIdle ==
  /\ \A k \in DOMAIN conns : conns[k].pc = "done"
  /\ \A p \in DOMAIN starts : starts[p].pc \in {"done", "failed"}
  /\ \A q \in DOMAIN stops : stops[q].pc \in {"done", "failed"}

\* C25: in manual mode, once no handler is in flight, capture is not active
\* with the recording flag clear (the half of "the flag is set if and only
\* if capture is active" that a quick press-and-release puts at stake).
C25_NoCaptureWithFlagClear ==
  (turnDetection # "server_vad" /\ TalkIdle)
    => ~(recorder = "recording" /\ ~isRecording)

\* the record() calls in a log
Records(calls) == SelectSeq(calls, LAMBDA c : c.op = "record")

\* C26: once connectConversation has ended, a step of a press that calls
\* wavRecorder.record() finds capture not active.
C26_RecordOnlyWhenNotCapturing ==
  [][ (conns # <<>> /\ \A k \in DOMAIN conns : conns[k].pc = "done")
      => \A p \in DOMAIN starts :
           Len(Records(starts'[p].calls)) > Len(Records(starts[p].calls))
             => recorder # "recording" ]_vars

\* ------------------------------------------- claims: the talk button and the connect
\* connectConversation is waiting for client.connect() or wavRecorder.begin()
Connecting ==
  \E k \in DOMAIN conns : conns[k].pc \in {"clientConnect", "recorderBegin"}

\* the createResponse() calls in a log
Responses(calls) == SelectSeq(calls, LAMBDA c : c.op = "createResponse")

\* C27: while connectConversation is waiting for client.connect() or for
\* wavRecorder.begin(), no startRecording and no stopRecording is started,
\* no record() is called and no createResponse() is called.
C27_NoTalkWhileConnecting ==
  [][ Connecting
      => /\ DOMAIN starts' = DOMAIN starts
         /\ DOMAIN stops' = DOMAIN stops
         /\ \A p \in DOMAIN starts :
              Len(Records(starts'[p].calls)) = Len(Records(starts[p].calls))
         /\ \A q \in DOMAIN stops :
              Len(Responses(stops'[q].calls)) = Len(Responses(stops[q].calls)) ]_vars

\* ------------------------------------------ claims: the item list, again
\* C28: a handler that was suspended on the decode of a completed item and
\* publishes its snapshot at its end does not replace a newer list by an
\* older one: the list it publishes holds every item of the list published
\* before it.
C28_PublishedInEventOrder ==
  [][ \A d \in DOMAIN decs :
        (decs[d].pc # "done" /\ decs'[d].pc = "done") => items \subseteq items' ]_vars

\* ------------------------------------------------ claims: the disconnect
\* C29: when disconnectConversation ends, the pending-audio buffer is empty.
C29_BufferEmptyAfterDisconnect ==
  [][ \A k \in DOMAIN discs :
        (discs[k].pc # "done" /\ discs'[k].pc = "done")
          => simliAudioBuffer' = <<>> ]_vars

\* C30: after the disconnect and before the next connect (the page shows
\* the session as not connected and the conversation of the client is
\* empty), a handler that was suspended on a decode and now reaches its end
\* leaves the published item list empty.
C30_ResumedDecodeKeepsListEmpty ==
  [][ \A d \in DOMAIN decs :
        (/\ decs[d].pc # "done"
         /\ decs'[d].pc = "done"
         /\ discs # <<>>
         /\ ~isConnected
         /\ conv = {}
         /\ items = {})
          => items' = {} ]_vars

\* ------------------------------------------------ claims: the main effect
\* C31: from the click on Connect to the user's disconnect the main effect
\* is not run again: no step in between runs its cleanup (client.reset(),
\* close of the avatar client) and its body (a new avatar client, the
\* handlers registered anew).
C31_NoEffectRerunInSession ==
  [][ (conns # <<>> /\ discs' = <<>>) => effectCtx' = effectCtx ]_vars

====
